---- MODULE Spec2Model ----
(***************************************************************************)
(* Model of quevivasbien/ai_incentives:                                    *)
(*   discrete_model.py  CSF, Game, SymmetricTwoPlayerGame                  *)
(*   scenarios.py       Scenario (parameter sweeps through a worker pool)  *)
(*                                                                         *)
(* numpy float64 values are modelled as exact rationals extended with the  *)
(* IEEE non-finite values: <<n, d>> with d > 0 is the reduced fraction     *)
(* n/d, <<1, 0>> is +inf, <<-1, 0>> is -inf and <<0, 0>> is NaN.  Rounding *)
(* is not modelled.  All zeros the model divides by are sums or products   *)
(* of non-negative values, hence +0.0.                                     *)
(***************************************************************************)
EXTENDS Integers, Sequences, FiniteSets, TLC

\* ------------------------------------------------------------------ bounds
\* Denominator of the grid the parameters pi, d and the CSF slopes are drawn from.
GridDen == 4
\* pi ranges over 0/GridDen .. MaxPiNum/GridDen.
MaxPiNum == 6
\* sigma ranges over 0/SigDen .. SigDen/SigDen, i.e. over [0, 1].
SigDen == 4
\* d ranges over 0/GridDen .. MaxDNum/GridDen.
MaxDNum == 1
\* Largest number of players of a general Game.
MaxPlayers == 2
\* Number of player types (pi, sigma, d) a general Game draws its players from, minus one.
MaxType == 3

\* n_players of the Scenarios.
SweepPlayers == 2
\* Length of the 1-d sweep arrays handed to Scenario.
MaxSteps == 3
\* Number of rows of the 2-d arrays handed to Scenario.
MaxSecondary == 2
\* cpu_count() of the host.
CpuCount == 2

\* ------------------------------------------------- numpy float arithmetic
Abs(x) == IF x < 0 THEN -x ELSE x

Sgn(x) == IF x < 0 THEN -1 ELSE IF x = 0 THEN 0 ELSE 1

RECURSIVE GCD(_, _)
GCD(a, b) == IF b = 0 THEN a ELSE GCD(b, a % b)

\* The float n/d, d > 0, as a reduced fraction.
R(n, d) == LET g == GCD(Abs(n), d) IN <<n \div g, d \div g>>

NaN == <<0, 0>>

Zero == <<0, 1>>

One == <<1, 1>>

Two == <<2, 1>>

IsNaN(a) == a = NaN

IsFinite(a) == a[2] > 0

fadd(a, b) ==
    IF IsNaN(a) \/ IsNaN(b) THEN NaN
    ELSE IF ~IsFinite(a) THEN (IF ~IsFinite(b) /\ b # a THEN NaN ELSE a)
    ELSE IF ~IsFinite(b) THEN b
    ELSE LET g == GCD(a[2], b[2])
         IN  R(a[1] * (b[2] \div g) + b[1] * (a[2] \div g), (a[2] \div g) * b[2])

fneg(a) == <<-a[1], a[2]>>

fsub(a, b) == fadd(a, fneg(b))

fmul(a, b) ==
    IF IsNaN(a) \/ IsNaN(b) THEN NaN
    ELSE IF ~IsFinite(a) \/ ~IsFinite(b)
         THEN (IF a[1] = 0 \/ b[1] = 0 THEN NaN ELSE <<Sgn(a[1]) * Sgn(b[1]), 0>>)
    ELSE LET g1 == GCD(Abs(a[1]), b[2])
             g2 == GCD(Abs(b[1]), a[2])
         IN  R((a[1] \div g1) * (b[1] \div g2), (a[2] \div g2) * (b[2] \div g1))

\* a / b; x / 0.0 is +-inf (a RuntimeWarning, no exception) and 0.0 / 0.0 is NaN.
fdiv(a, b) ==
    IF IsNaN(a) \/ IsNaN(b) THEN NaN
    ELSE IF ~IsFinite(b) THEN (IF ~IsFinite(a) THEN NaN ELSE Zero)
    ELSE IF ~IsFinite(a) THEN <<a[1] * (IF b[1] < 0 THEN -1 ELSE 1), 0>>
    ELSE IF b[1] = 0 THEN (IF a[1] = 0 THEN NaN ELSE <<Sgn(a[1]), 0>>)
    ELSE fmul(a, <<b[2] * Sgn(b[1]), Abs(b[1])>>)

\* a < b; every comparison with NaN is False.
flt(a, b) ==
    /\ ~IsNaN(a)
    /\ ~IsNaN(b)
    /\ IF ~IsFinite(a) /\ ~IsFinite(b) THEN a[1] < b[1]
       ELSE LET g == GCD(a[2], b[2])
            IN  a[1] * (b[2] \div g) < b[1] * (a[2] \div g)

\* a > b
fgt(a, b) == flt(b, a)

\* ------------------------------------------------------- numpy 1-d arrays
\* Two 1-d shapes broadcast iff they are equal or one of them is 1.
CanBroadcast(m, n) == m = n \/ m = 1 \/ n = 1

BroadcastLen(m, n) == IF m = n THEN m ELSE IF m = 1 THEN n ELSE m

\* Element i of array a stretched to a broadcast shape.
At(a, i) == IF Len(a) = 1 THEN a[1] ELSE a[i]

RECURSIVE vsum(_)
vsum(a) == IF a = <<>> THEN Zero ELSE fadd(vsum(SubSeq(a, 1, Len(a) - 1)), a[Len(a)])

RECURSIVE vprod(_)
vprod(a) == IF a = <<>> THEN One ELSE fmul(vprod(SubSeq(a, 1, Len(a) - 1)), a[Len(a)])

\* A bool array as numbers: True is 1, False is 0.
AsNum(x) == [i \in 1..Len(x) |-> IF x[i] THEN One ELSE Zero]

\* -------------------------------------------------------------------- CSF
\* CSF.reward(i, p)
reward(csf, i, p) ==
    LET win_proba == fdiv(p[i], vsum(p))
    IN  fadd(fmul(fadd(csf.w, fmul(p[i], csf.a_w)), win_proba),
             fmul(fadd(csf.l, fmul(p[i], csf.a_l)), fsub(One, win_proba)))

\* all_rewards with the winner and loser terms exchanged (a faulty variant).
all_rewards_swapped(csf, p) ==
    LET sum_ == vsum(p)
    IN  [i \in 1..Len(p) |->
            LET win_proba == fdiv(p[i], sum_)
            IN  fadd(fmul(fadd(csf.l, fmul(p[i], csf.a_l)), win_proba),
                     fmul(fadd(csf.w, fmul(p[i], csf.a_w)), fsub(One, win_proba)))]

\* CSF.all_rewards(p): the elementwise form of reward, on the whole array.
all_rewards(csf, p) ==
    LET sum_ == vsum(p)
    IN  [i \in 1..Len(p) |->
            LET win_proba == fdiv(p[i], sum_)
            IN  fadd(fmul(fadd(csf.w, fmul(p[i], csf.a_w)), win_proba),
                     fmul(fadd(csf.l, fmul(p[i], csf.a_l)), fsub(One, win_proba)))]

\* ------------------------------------------------------------------- Game
\* The shapes numpy has to broadcast in get_payoffs(x), n = n_players, lx = len(x):
\* sigma * x, pi * (1 - x) and, last, the rewards (of the broadcast length) against d.
PayoffShapesOK(n, lx) ==
    /\ CanBroadcast(n, lx)
    /\ CanBroadcast(BroadcastLen(n, lx), n)

\* The value Game.get_payoffs(x) returns when no shape error is raised:
\*   safe_proba = (sigma * x + (1 - x)).prod()
\*   rewards    = csf.all_rewards(pi * (1 - x) + x)
\*   safe_proba * rewards - (1 - safe_proba) * d
payoffs_value(g, x) ==
    LET xn         == AsNum(x)
        m          == BroadcastLen(g.n_players, Len(x))
        safe_proba == vprod([i \in 1..m |->
                          fadd(fmul(At(g.sigma, i), At(xn, i)), fsub(One, At(xn, i)))])
        rewards    == all_rewards(g.csf,
                          [i \in 1..m |->
                              fadd(fmul(At(g.pi, i), fsub(One, At(xn, i))), At(xn, i))])
    IN  [i \in 1..BroadcastLen(m, Len(g.d)) |->
            fsub(fmul(safe_proba, At(rewards, i)),
                 fmul(fsub(One, safe_proba), At(g.d, i)))]

\* Game.get_payoffs(x): the payoff vector, or numpy's ValueError on shapes that do
\* not broadcast.
get_payoffs(g, x) ==
    IF PayoffShapesOK(g.n_players, Len(x))
    THEN [raised |-> "none", value |-> payoffs_value(g, x)]
    ELSE [raised |-> "ValueError", value |-> <<>>]

\* A variant of _get_payoff_matrix with the two off-diagonal profiles exchanged.
payoff_matrix_transposed(g) ==
    [a \in 0..1 |-> [b \in 0..1 |-> payoffs_value(g, <<b = 1, a = 1>>)]]

\* SymmetricTwoPlayerGame._get_payoff_matrix: entry [a][b] is
\* get_payoffs([a, b]), a the strategy of player 0 and b that of player 1.
\* Player k's payoff is payoff_matrix[a][b][k + 1] (sequences are 1-based).
get_payoff_matrix(g) ==
    [a \in 0..1 |-> [b \in 0..1 |-> payoffs_value(g, <<a = 1, b = 1>>)]]

\* The closed form q0 of find_nash_eqs, elementwise on the arrays pi, sigma, d:
\*   (pi - 2*sigma + 1 + 2*d*(pi + 1)*(1 - sigma)) / ((2*d + 1) * (pi + 1) * (1 - sigma)**2)
q0_value(g) ==
    [i \in 1..g.n_players |->
        LET pi    == g.pi[i]
            sigma == g.sigma[i]
            d     == g.d[i]
            num   == fadd(fadd(fsub(pi, fmul(Two, sigma)), One),
                          fmul(fmul(fmul(Two, d), fadd(pi, One)), fsub(One, sigma)))
            den   == fmul(fmul(fadd(fmul(Two, d), One), fadd(pi, One)),
                          fmul(fsub(One, sigma), fsub(One, sigma)))
        IN  fdiv(num, den)]

\* A variant of find_nash_eqs without the mixed-strategy check.
find_nash_eqs_pure_only(g) ==
    LET pm == g.payoff_matrix
    IN  (IF fgt(pm[0][0][1], pm[1][0][1]) THEN << <<Zero, Zero>> >> ELSE <<>>)
        \o (IF fgt(pm[1][1][1], pm[0][1][1]) THEN << <<One, One>> >> ELSE <<>>)

\* A variant of find_nash_eqs testing "not (q0 <= 0 or q0 >= 1)", which lets NaN through.
find_nash_eqs_negated(g) ==
    LET pm == g.payoff_matrix
        q0 == q0_value(g)
        le(a, b) == flt(a, b) \/ (~IsNaN(a) /\ a = b)
    IN  (IF fgt(pm[0][0][1], pm[1][0][1]) THEN << <<Zero, Zero>> >> ELSE <<>>)
        \o (IF fgt(pm[1][1][1], pm[0][1][1]) THEN << <<One, One>> >> ELSE <<>>)
        \o (IF ~(le(q0[1], Zero) \/ le(One, q0[1])) THEN << <<q0[1], q0[2]>> >> ELSE <<>>)

\* SymmetricTwoPlayerGame.find_nash_eqs
find_nash_eqs(g) ==
    LET pm == g.payoff_matrix
        q0 == q0_value(g)
    IN  (IF fgt(pm[0][0][1], pm[1][0][1]) THEN << <<Zero, Zero>> >> ELSE <<>>)
        \o (IF fgt(pm[1][1][1], pm[0][1][1]) THEN << <<One, One>> >> ELSE <<>>)
        \o (IF flt(Zero, q0[1]) /\ flt(q0[1], One) THEN << <<q0[1], q0[2]>> >> ELSE <<>>)

\* A variant of nash_payoffs with the two off-diagonal matrix entries exchanged.
nash_payoffs_swapped(g, ps) ==
    LET pm == g.payoff_matrix
    IN  [k \in 1..Len(ps) |->
            LET p == ps[k]
            IN  fadd(fadd(fadd(fmul(fmul(p[1], p[2]), pm[1][1][1]),
                               fmul(fmul(p[1], fsub(One, p[2])), pm[0][1][1])),
                          fmul(fmul(fsub(One, p[1]), p[2]), pm[1][0][1])),
                     fmul(fmul(fsub(One, p[1]), fsub(One, p[2])), pm[0][0][1]))]

\* SymmetricTwoPlayerGame.nash_payoffs(ps), ps a list of pairs
nash_payoffs(g, ps) ==
    LET pm == g.payoff_matrix
    IN  [k \in 1..Len(ps) |->
            LET p == ps[k]
            IN  fadd(fadd(fadd(fmul(fmul(p[1], p[2]), pm[1][1][1]),
                               fmul(fmul(p[1], fsub(One, p[2])), pm[1][0][1])),
                          fmul(fmul(fsub(One, p[1]), p[2]), pm[0][1][1])),
                     fmul(fmul(fsub(One, p[1]), fsub(One, p[2])), pm[0][0][1]))]

\* ----------------------------------------------------------------- inputs
PiVals == {R(k, GridDen) : k \in 0..MaxPiNum}

SigVals == {R(k, SigDen) : k \in 0..SigDen}

DVals == {R(k, GridDen) : k \in 0..MaxDNum}

\* CSF(w, l, a_w, a_l); the defaults are w = 1, l = 0, a_w = 0, a_l = 0.
CSFs ==
    [w : {One, Two}, l : {Zero, R(1, GridDen)},
     a_w : {Zero, R(1, GridDen)}, a_l : {Zero, R(1, GridDen)}]

BaselineCSF == [w |-> One, l |-> Zero, a_w |-> Zero, a_l |-> Zero]

\* The CSFs of the two-player games: the default one and those that differ from it
\* in one parameter.
NashCSFs ==
    {c \in CSFs :
        Cardinality({f \in {"w", "l", "a_w", "a_l"} : c[f] # BaselineCSF[f]}) <= 1}

\* The CSFs of the general Games: the default one and those with every winner
\* parameter away from its default.
GameCSFs == {BaselineCSF} \cup {c \in CSFs : c.w # One /\ c.l # Zero /\ c.a_w # Zero}

\* The (pi, sigma, d) of the players of a general Game: a diagonal of the grid.
PlayerTypes ==
    {<<R(k % (MaxPiNum + 1), GridDen), R(k % (SigDen + 1), SigDen),
       R((k + 1) % (MaxDNum + 1), GridDen)>> : k \in 0..MaxType}

\* The strategy vectors x handed to get_payoffs, of every length up to MaxPlayers.
Strategies == UNION {[1..n -> BOOLEAN] : n \in 0..MaxPlayers}

\* ------------------------------------------------------------------ state
VARIABLES
    game,        \* the constructed Game / SymmetricTwoPlayerGame object
    x_in,        \* the argument of the last get_payoffs call
    payoffs_out, \* what that call returned or raised
    eqs_out,     \* what the last find_nash_eqs call returned
    ps_in,       \* the list the last nash_payoffs call evaluated
    nash_out,    \* what that call returned
    cpp_available, \* CPP_AVAILABLE, set when scenarios.py is imported
    spc,         \* where the Scenario is: start, constructed, map, done, raised, ...
    args,        \* the arguments of Scenario(...)
    scen,        \* the constructed Scenario
    call,        \* the arguments of solve(...)
    tables,      \* the param_dict(s) solve built
    cur,         \* index of the table being solved
    pool,        \* the worker pool of the running pool.map
    solved,      \* what the solver returned for the tables solved so far
    plots,       \* the plots written
    ret,         \* what solve returned
    exc          \* what the constructor or solve raised

game_vars == <<game, x_in, payoffs_out, eqs_out, ps_in, nash_out>>

NoGame ==
    [kind |-> "none", n_players |-> 0, pi |-> <<>>, sigma |-> <<>>, d |-> <<>>,
     csf |-> BaselineCSF, payoff_matrix |-> <<>>]

NoCall == [raised |-> "nocall", value |-> <<>>]

GameInit ==
    /\ game = NoGame
    /\ x_in = <<>>
    /\ payoffs_out = NoCall
    /\ eqs_out = NoCall
    /\ ps_in = <<>>
    /\ nash_out = NoCall

\* Game.__init__(pi, sigma, d, csf); the assert demands equal lengths.
NewGame(pi, sigma, d, csf) ==
    /\ game.kind = "none"
    /\ game' = IF Len(pi) = Len(sigma) /\ Len(sigma) = Len(d)
               THEN [kind |-> "Game", n_players |-> Len(pi), pi |-> pi, sigma |-> sigma,
                     d |-> d, csf |-> csf, payoff_matrix |-> <<>>]
               ELSE [NoGame EXCEPT !.kind = "AssertionError"]
    /\ UNCHANGED <<x_in, payoffs_out, eqs_out, ps_in, nash_out>>

\* SymmetricTwoPlayerGame.__init__(pi, sigma, d, csf): the scalars times ones(2),
\* then the payoff matrix, computed once.
NewSymmetricTwoPlayerGame(pi, sigma, d, csf) ==
    /\ game.kind = "none"
    /\ LET g == [kind |-> "SymmetricTwoPlayerGame", n_players |-> 2,
                 pi |-> <<pi, pi>>, sigma |-> <<sigma, sigma>>, d |-> <<d, d>>,
                 csf |-> csf, payoff_matrix |-> <<>>]
       IN  game' = [g EXCEPT !.payoff_matrix = get_payoff_matrix(g)]
    /\ UNCHANGED <<x_in, payoffs_out, eqs_out, ps_in, nash_out>>

\* A call of get_payoffs(x) on the constructed game.
GetPayoffs(x) ==
    /\ game.kind \in {"Game", "SymmetricTwoPlayerGame"}
    /\ x_in' = x
    /\ payoffs_out' = get_payoffs(game, x)
    /\ UNCHANGED <<game, eqs_out, ps_in, nash_out>>

\* A call of find_nash_eqs().
FindNashEqs ==
    /\ game.kind = "SymmetricTwoPlayerGame"
    /\ eqs_out' = [raised |-> "none", value |-> find_nash_eqs(game)]
    /\ UNCHANGED <<game, x_in, payoffs_out, ps_in, nash_out>>

\* A call of nash_payoffs(ps) with an explicit list.
NashPayoffs(ps) ==
    /\ game.kind = "SymmetricTwoPlayerGame"
    /\ ps_in' = ps
    /\ nash_out' = [raised |-> "none", value |-> nash_payoffs(game, ps)]
    /\ UNCHANGED <<game, x_in, payoffs_out, eqs_out>>

\* A call of nash_payoffs() with ps = None: the list is find_nash_eqs().
NashPayoffsDefault ==
    /\ game.kind = "SymmetricTwoPlayerGame"
    /\ LET ps == find_nash_eqs(game)
       IN  /\ ps_in' = ps
           /\ nash_out' = [raised |-> "default", value |-> nash_payoffs(game, ps)]
    /\ UNCHANGED <<game, x_in, payoffs_out, eqs_out>>

\* --------------------------------------------------------------- Scenario
VEC_PARAM_NAMES == <<"A", "alpha", "B", "beta", "theta", "d", "r">>

VecNames == {VEC_PARAM_NAMES[i] : i \in 1..Len(VEC_PARAM_NAMES)}

NameIdx(name) == CHOOSE i \in 1..Len(VEC_PARAM_NAMES) : VEC_PARAM_NAMES[i] = name

\* numpy arrays of the Scenario parameters: ndim, shape, and the entries v of a 1-d
\* array or the rows of a 2-d one.  The entries are opaque numbers, chosen so that
\* every entry tells where it came from.
Arr1(v) == [ndim |-> 1, shape |-> <<Len(v)>>, v |-> v, rows |-> <<>>]

Arr2(rows, cols) == [ndim |-> 2, shape |-> <<Len(rows), cols>>, v |-> <<>>, rows |-> rows]

\* A per-player vector of parameter name: 10 * index of the name + player.
FixedArr(name, n) == Arr1([j \in 1..n |-> 10 * NameIdx(name) + j])

\* A sweep of L values: 101, 102, ...
SweepArr(L) == Arr1([k \in 1..L |-> 100 + k])

\* m secondary values of c entries each: row i holds 200 + 10 * i + j.
SecondaryArr(m, c) == Arr2([i \in 1..m |-> [j \in 1..c |-> 200 + 10 * i + j]], c)

\* np.tile(a, (k, 1)) of a 1-d array a: k rows, each a copy of a.
Tile(a, k) == [i \in 1..k |-> a]

\* M.T of a 2-d array of the given shape.
Transpose(M, rows, cols) == [k \in 1..cols |-> [j \in 1..rows |-> M[j][k]]]

Min(a, b) == IF a < b THEN a ELSE b

\* The assert of Scenario.__init__ on one vector parameter.
ParamShapeOK(name, param, n_players, varying_param, secondary_varying_param) ==
    IF varying_param = name THEN param.ndim = 1
    ELSE IF secondary_varying_param = name
         THEN param.ndim = 2 /\ param.shape[2] = n_players
    ELSE param.ndim = 1 /\ param.shape[1] = n_players

\* The loop of Scenario.__init__ over VEC_PARAM_NAMES passes every assert.
ScenarioShapesOK(n_players, params, varying_param, secondary_varying_param) ==
    \A name \in VecNames :
        ParamShapeOK(name, params[name], n_players, varying_param, secondary_varying_param)

\* n_steps as the loop leaves it: the length of the primary parameter, 0 when
\* varying_param names none of the seven.
StepsOf(params, varying_param) ==
    IF varying_param \in VecNames THEN params[varying_param].shape[1] ELSE 0

\* n_steps_secondary as the loop leaves it: set only in the elif branch.
SecondaryStepsOf(params, varying_param, secondary_varying_param) ==
    IF secondary_varying_param \in VecNames /\ secondary_varying_param # varying_param
    THEN params[secondary_varying_param].shape[1]
    ELSE 0

\* A variant of param_dict that tiles the primary parameter across the players
\* without transposing it.
ParamDictNoTranspose(sc) ==
    [name \in VecNames |->
        IF name # sc.varying_param
        THEN Tile(sc.params[name].v, sc.n_steps)
        ELSE Tile(sc.params[name].v, sc.n_players)]

\* The param_dict of Scenario.solve: fixed parameters tiled to n_steps rows, the
\* primary one tiled across the players and transposed.
ParamDict(sc) ==
    [name \in VecNames |->
        IF name # sc.varying_param
        THEN Tile(sc.params[name].v, sc.n_steps)
        ELSE Transpose(Tile(sc.params[name].v, sc.n_players), sc.n_players, sc.n_steps)]

\* The param_dicts of solve_with_secondary_variation: one table per row of the
\* secondary parameter.
ParamDicts(sc) ==
    [m \in 1..sc.n_steps_secondary |->
        [name \in VecNames |->
            IF name = sc.varying_param
            THEN Transpose(Tile(sc.params[name].v, sc.n_players), sc.n_players, sc.n_steps)
            ELSE IF name = sc.secondary_varying_param
                 THEN Tile(sc.params[name].rows[m], sc.n_steps)
            ELSE Tile(sc.params[name].v, sc.n_steps)]]

\* The argument list _solver_helper hands to pool.map: one tuple per zipped row of
\* the table (the CSF and tolerance scalars, the same in every tuple, are left out).
TasksOf(sc, table) ==
    [k \in 1..sc.n_steps |->
        [n_players |-> sc.n_players, row |-> [name \in VecNames |-> table[name][k]]]]

\* What a backend returns for one task: opaque, determined by the task.
StratOf(task) == [ok |-> TRUE, task |-> task]

\* The slot of a task that has returned nothing.
NoResult == [ok |-> FALSE, task |-> [n_players |-> 0, row |-> [name \in VecNames |-> <<>>]]]

\* pool.map collecting in completion order (a faulty variant).
PoolMapResultByArrival(pl) ==
    IF pl.first_exc # 0
    THEN [raised |-> "TaskError", at |-> pl.first_exc, value |-> <<>>]
    ELSE [raised |-> "none", at |-> 0,
          value |-> [k \in 1..Len(pl.tasks) |-> pl.results[pl.arrived[k]]]]

\* pool.map skipping the tasks that raised (a faulty variant).
PoolMapResultSkipFailed(pl) ==
    [raised |-> "none", at |-> 0,
     value |-> [k \in 1..Len(pl.tasks) |-> pl.results[k]]]

\* What pool.map returns once every task has finished: the results by submission
\* index, or the first failure that arrived, re-raised.
PoolMapResult(pl) ==
    IF pl.first_exc # 0
    THEN [raised |-> "TaskError", at |-> pl.first_exc, value |-> <<>>]
    ELSE [raised |-> "none", at |-> 0,
          value |-> [k \in 1..Len(pl.tasks) |-> pl.results[k]]]

ProdNames == {"A", "alpha", "B", "beta", "theta"}

\* (strats, s, p, payoffs) of _solve_roots / _solve_python / _solve_cpp: row k of s
\* and p is the production of strats[k] under row k of A..theta, row k of payoffs the
\* payoff of strats[k] under row k of every parameter.
SolverReturn(strats, table) ==
    [strats  |-> strats,
     s       |-> [k \in 1..Len(strats) |->
                    [of |-> strats[k], row |-> [name \in ProdNames |-> table[name][k]]]],
     p       |-> [k \in 1..Len(strats) |->
                    [of |-> strats[k], row |-> [name \in ProdNames |-> table[name][k]]]],
     payoffs |-> [k \in 1..Len(strats) |->
                    [of |-> strats[k], row |-> [name \in VecNames |-> table[name][k]]]]]

sweep_vars ==
    <<cpp_available, spc, args, scen, call, tables, cur, pool, solved, plots, ret, exc>>

vars == <<game_vars, sweep_vars>>

NoScen ==
    [n_players |-> 0, params |-> [name \in VecNames |-> Arr1(<<>>)],
     varying_param |-> "none", secondary_varying_param |-> "none",
     n_steps |-> 0, n_steps_secondary |-> 0]

NoSolve == [method |-> "none", plot |-> FALSE, labels |-> 0]

NoPool == [size |-> 0, tasks |-> <<>>, tstate |-> <<>>, results |-> <<>>,
           arrived |-> <<>>, first_exc |-> 0]

NoExc == [type |-> "none", at |-> 0]

NoRet == [kind |-> "nocall", value |-> <<>>]

SweepIdle ==
    /\ spc = "start"
    /\ args = NoScen
    /\ scen = NoScen
    /\ call = NoSolve
    /\ tables = <<>>
    /\ cur = 0
    /\ pool = NoPool
    /\ solved = <<>>
    /\ plots = <<>>
    /\ ret = NoRet
    /\ exc = NoExc

\* The game objects play no part in the sweeps, and the other way round.
Init == GameInit /\ cpp_available = FALSE /\ SweepIdle

SweepInit == GameInit /\ cpp_available \in BOOLEAN /\ SweepIdle

\* Scenario(n_players, A, ..., r, varying_param, secondary_varying_param)
Construct(n_players, params, varying_param, secondary_varying_param) ==
    /\ spc = "start"
    /\ args' = [n_players |-> n_players, params |-> params,
                varying_param |-> varying_param,
                secondary_varying_param |-> secondary_varying_param,
                n_steps |-> 0, n_steps_secondary |-> 0]
    /\ IF ScenarioShapesOK(n_players, params, varying_param, secondary_varying_param)
       THEN /\ scen' = [n_players |-> n_players, params |-> params,
                        varying_param |-> varying_param,
                        secondary_varying_param |-> secondary_varying_param,
                        n_steps |-> StepsOf(params, varying_param),
                        n_steps_secondary |->
                            SecondaryStepsOf(params, varying_param, secondary_varying_param)]
            /\ spc' = "constructed"
            /\ exc' = exc
       ELSE /\ scen' = scen
            /\ spc' = "ctor_failed"
            /\ exc' = [type |-> "AssertionError", at |-> 0]
    /\ UNCHANGED <<cpp_available, call, tables, cur, pool, solved, plots, ret>>

\* The pool and the pool.map call of _solver_helper on one table: every task of the
\* table is submitted at once.
NewPool(sc, table) ==
    [size |-> Min(CpuCount, sc.n_steps),
     tasks |-> TasksOf(sc, table),
     tstate |-> [k \in 1..sc.n_steps |-> "queued"],
     results |-> [k \in 1..sc.n_steps |-> NoResult],
     arrived |-> <<>>,
     first_exc |-> 0]

\* The assert of solve / solve_with_secondary_variation on the labels
\* (labels is the length of the list, 0 for None).
LabelsOK(sc, labels) ==
    \/ labels = 0
    \/ labels = (IF sc.n_steps_secondary # 0 THEN sc.n_steps_secondary ELSE sc.n_players)

\* solve(plot, plotname, labels, method) up to the pool.map call of the first table.
\* Pool(0) raises ValueError.
SolveCall(method, plot, labels) ==
    /\ spc = "constructed"
    /\ call' = [method |-> method, plot |-> plot, labels |-> labels]
    /\ IF ~LabelsOK(scen, labels)
       THEN /\ spc' = "raised"
            /\ exc' = [type |-> "AssertionError", at |-> 0]
            /\ UNCHANGED <<tables, cur, pool>>
       ELSE /\ tables' = IF scen.n_steps_secondary # 0 THEN ParamDicts(scen)
                         ELSE <<ParamDict(scen)>>
            /\ cur' = 1
            /\ IF Min(CpuCount, scen.n_steps) < 1
               THEN /\ spc' = "raised"
                    /\ exc' = [type |-> "ValueError", at |-> 0]
                    /\ pool' = pool
               ELSE /\ spc' = "map"
                    /\ exc' = exc
                    /\ pool' = NewPool(scen, tables'[1])
    /\ UNCHANGED <<cpp_available, args, scen, solved, plots, ret>>

Running(pl) == {k \in 1..Len(pl.tasks) : pl.tstate[k] = "running"}

Queued(pl) == {k \in 1..Len(pl.tasks) : pl.tstate[k] = "queued"}

\* An idle worker takes the next task of the queue.
WorkerStart ==
    /\ spc = "map"
    /\ Cardinality(Running(pool)) < pool.size
    /\ Queued(pool) # {}
    /\ LET k == CHOOSE k \in Queued(pool) : \A j \in Queued(pool) : k <= j
       IN  pool' = [pool EXCEPT !.tstate[k] = "running"]
    /\ UNCHANGED <<cpp_available, spc, args, scen, call, tables, cur, solved, plots, ret, exc>>

\* The helper of the chosen method can return: _cpp_multiproc_helper calls solve,
\* a name that is bound only when the cpp backend was imported.
CanSucceed == call.method # "cpp" \/ cpp_available

\* The worker running task k finishes it: the backend returns, or it raises.
WorkerFinish(k, ok) ==
    /\ spc = "map"
    /\ k \in Running(pool)
    /\ ok => CanSucceed
    /\ pool' = [pool EXCEPT
                  !.tstate[k] = IF ok THEN "ok" ELSE "failed",
                  !.results[k] = IF ok THEN StratOf(pool.tasks[k]) ELSE NoResult,
                  !.arrived = Append(pool.arrived, k),
                  !.first_exc = IF ~ok /\ pool.first_exc = 0 THEN k ELSE pool.first_exc]
    /\ UNCHANGED <<cpp_available, spc, args, scen, call, tables, cur, solved, plots, ret, exc>>

\* What solve_with_secondary_variation returns: it has no return statement.
SecondaryReturn(sv) == [kind |-> "None", value |-> <<>>]

\* pool.map returns or raises, and solve runs on from there: on a failure the
\* exception leaves solve; otherwise the solver derives s, p and payoffs, and either
\* the next table is dispatched or the plots are written and solve returns.
MapReturn ==
    /\ spc = "map"
    /\ \A k \in 1..Len(pool.tasks) : pool.tstate[k] \in {"ok", "failed"}
    /\ LET r == PoolMapResult(pool)
           secondary == scen.n_steps_secondary # 0
           sv == Append(solved, SolverReturn(r.value, tables[cur]))
       IN  IF r.raised # "none"
           THEN /\ spc' = "raised"
                /\ exc' = [type |-> IF CanSucceed THEN "SolverError" ELSE "NameError",
                           at |-> r.at]
                /\ UNCHANGED <<cur, pool, solved, plots, ret>>
           ELSE /\ solved' = sv
                /\ exc' = exc
                /\ IF secondary /\ cur < Len(tables)
                   THEN /\ cur' = cur + 1
                        /\ pool' = NewPool(scen, tables[cur + 1])
                        /\ UNCHANGED <<spc, plots, ret>>
                   ELSE /\ spc' = "done"
                        /\ plots' = IF call.plot
                                    THEN Append(plots, [curves |-> Len(sv),
                                                        labels |-> call.labels])
                                    ELSE plots
                        /\ ret' = IF secondary THEN SecondaryReturn(sv)
                                  ELSE [kind |-> "tuple", value |-> sv[1]]
                        /\ UNCHANGED <<cur, pool>>
    /\ UNCHANGED <<cpp_available, args, scen, call, tables>>

\* The arrays handed to Scenario for the parameters that may vary.
Candidates(name) ==
    {FixedArr(name, SweepPlayers), SweepArr(MaxSteps),
     SecondaryArr(MaxSecondary, SweepPlayers), SecondaryArr(MaxSecondary, SweepPlayers + 1)}

SweepNext ==
    \/ \E rr \in Candidates("r"), bb \in Candidates("B"), aa \in Candidates("A"),
          vp \in {"r", "B", "w"}, sp \in {"none", "r", "B"} :
         Construct(SweepPlayers,
                   [name \in VecNames |->
                       IF name = "r" THEN rr ELSE IF name = "B" THEN bb
                       ELSE IF name = "A" THEN aa ELSE FixedArr(name, SweepPlayers)],
                   vp, sp) /\ UNCHANGED game_vars
    \/ \E method \in {"roots", "python", "cpp"}, plot \in BOOLEAN,
          labels \in {0, SweepPlayers, SweepPlayers + 1} :
         /\ SolveCall(method, plot, labels)
         /\ UNCHANGED game_vars
    \/ WorkerStart /\ UNCHANGED game_vars
    \/ (\E k \in 1..Len(pool.tasks), ok \in BOOLEAN : WorkerFinish(k, ok)) /\ UNCHANGED game_vars
    \/ MapReturn /\ UNCHANGED game_vars

\* The explicit lists handed to nash_payoffs: for p = 0 and p = 1 they hold the pure
\* pairs (0,0) and (1,1), and otherwise asymmetric and mixed pairs.
PsLists == {<< <<p, One>>, <<Zero, p>>, <<p, p>> >> : p \in SigVals}

\* A general Game of n players of the given types, sigma and d cut to ls and ld entries.
GameNext ==
    \/ \E n \in 1..MaxPlayers, csf \in GameCSFs :
         \E ts \in [1..n -> PlayerTypes], ls \in {n - 1, n}, ld \in {n - 1, n} :
            NewGame([i \in 1..n |-> ts[i][1]],
                    [i \in 1..ls |-> ts[i][2]],
                    [i \in 1..ld |-> ts[i][3]], csf)
    \/ \E x \in Strategies : GetPayoffs(x)

NashNext ==
    \/ \E pi \in PiVals, sigma \in SigVals, d \in DVals, csf \in NashCSFs :
         NewSymmetricTwoPlayerGame(pi, sigma, d, csf)
    \/ FindNashEqs
    \/ \E ps \in PsLists : NashPayoffs(ps)
    \/ NashPayoffsDefault

SpecGame == Init /\ [][GameNext /\ UNCHANGED sweep_vars]_vars

SpecNash == Init /\ [][NashNext /\ UNCHANGED sweep_vars]_vars

SpecSweep == SweepInit /\ [][SweepNext]_vars

\* ------------------------------------------------------------- properties
RECURSIVE ProdOver(_, _)
ProdOver(S, f) ==
    IF S = {} THEN One
    ELSE LET j == CHOOSE j \in S : TRUE IN fmul(f[j], ProdOver(S \ {j}, f))

\* P * reward_i - (1 - P) * d_i, P the product of sigma over the risky players and
\* reward_i the CSF reward of player i at the performance vector perf.
StatedPayoff(g, x, i, perf) ==
    LET P == ProdOver({j \in 1..Len(x) : x[j]}, g.sigma)
    IN  fsub(fmul(P, reward(g.csf, i, perf)), fmul(fsub(One, P), g.d[i]))

PayoffsReturned ==
    /\ game.kind = "Game"
    /\ payoffs_out.raised = "none"
    /\ Len(x_in) = game.n_players

\* C1 as stated: get_payoffs(x)[i] = P * reward_i - (1 - P) * d_i with every risky
\* player contributing pi_j and every safe player contributing 1 to the performance vector
\* (stated here for the games whose pi are all positive, where no payoff is NaN).
C1_RiskyContributesPi ==
    (PayoffsReturned /\ \A j \in 1..game.n_players : flt(Zero, game.pi[j])) =>
        \A i \in 1..game.n_players :
            payoffs_out.value[i] =
                StatedPayoff(game, x_in, i,
                             [j \in 1..game.n_players |-> IF x_in[j] THEN game.pi[j] ELSE One])

\* C1 amended: get_payoffs(x)[i] = P * reward_i - (1 - P) * d_i with every SAFE player
\* contributing pi_j and every RISKY player contributing 1 to the performance vector.
C1_SafeContributesPi ==
    PayoffsReturned =>
        /\ Len(payoffs_out.value) = game.n_players
        /\ \A i \in 1..game.n_players :
            payoffs_out.value[i] =
                StatedPayoff(game, x_in, i,
                             [j \in 1..game.n_players |-> IF x_in[j] THEN One ELSE game.pi[j]])

\* A two-player profile with one risky and one safe player of different pi, with finite payoffs.
C1_Witness ==
    /\ PayoffsReturned
    /\ game.n_players = 2
    /\ x_in = <<TRUE, FALSE>>
    /\ game.pi[2] # One
    /\ game.pi[1] # game.pi[2]
    /\ game.sigma[1] # One
    /\ \A i \in 1..2 : IsFinite(payoffs_out.value[i])

\* Player 0's payoff when it plays own and the other player plays other (TRUE = risky),
\* evaluated on the game's parameters, not read from the cached matrix.
Payoff0(own, other) == payoffs_value(game, <<own, other>>)[1]

EqsReturned == game.kind = "SymmetricTwoPlayerGame" /\ eqs_out.raised = "none"

HasPair(pair) == \E k \in 1..Len(eqs_out.value) : eqs_out.value[k] = pair

\* C2: find_nash_eqs() returns (0,0) iff player 0's payoff at (safe, safe) is strictly
\* greater than at (risky, safe), and (1,1) iff its payoff at (risky, risky) is strictly
\* greater than at (safe, risky); on a tie the pure pair is not returned.
C2_PurePairsIffStrict ==
    EqsReturned =>
        /\ HasPair(<<Zero, Zero>>) <=> fgt(Payoff0(FALSE, FALSE), Payoff0(TRUE, FALSE))
        /\ HasPair(<<One, One>>) <=> fgt(Payoff0(TRUE, TRUE), Payoff0(FALSE, TRUE))
        /\ Payoff0(FALSE, FALSE) = Payoff0(TRUE, FALSE) => ~HasPair(<<Zero, Zero>>)
        /\ Payoff0(TRUE, TRUE) = Payoff0(FALSE, TRUE) => ~HasPair(<<One, One>>)

\* The safe pair is returned while the risky comparison is a tie of finite payoffs.
C2_Witness ==
    /\ EqsReturned
    /\ HasPair(<<Zero, Zero>>)
    /\ IsFinite(Payoff0(TRUE, TRUE))
    /\ Payoff0(TRUE, TRUE) = Payoff0(FALSE, TRUE)
    /\ ~HasPair(<<One, One>>)

IsMixed(pair) == flt(Zero, pair[1]) /\ flt(pair[1], One)

\* Player 0 is indifferent between risky and safe against an opponent playing risky
\* with probability q, on the cached payoff matrix.
Indifferent(q) ==
    LET pm == game.payoff_matrix
    IN  fadd(fmul(q, pm[1][1][1]), fmul(fsub(One, q), pm[1][0][1]))
        = fadd(fmul(q, pm[0][1][1]), fmul(fsub(One, q), pm[0][0][1]))

\* C3 as stated: for any CSF parameters, a returned mixed pair (q, q) is the
\* indifference point of the cached payoff matrix (stated here for pi > 0, where every
\* entry of the matrix is finite).
C3_MixedIsIndifferent ==
    (EqsReturned /\ flt(Zero, game.pi[1])) =>
        \A k \in 1..Len(eqs_out.value) :
            IsMixed(eqs_out.value[k]) =>
                /\ eqs_out.value[k][1] = eqs_out.value[k][2]
                /\ Indifferent(eqs_out.value[k][1])

\* The same statement restricted to the default CSF (w = 1, l = 0, a_w = 0, a_l = 0),
\* the case the closed form q0 was derived for, and to pi > 0.
MixedIsIndifferentBaseline ==
    (EqsReturned /\ game.csf = BaselineCSF /\ flt(Zero, game.pi[1])) =>
        \A k \in 1..Len(eqs_out.value) :
            IsMixed(eqs_out.value[k]) =>
                /\ eqs_out.value[k][1] = eqs_out.value[k][2]
                /\ Indifferent(eqs_out.value[k][1])

\* C4: with sigma = 1 find_nash_eqs() completes and returns no mixed pair (q0 is NaN
\* or infinite and is not appended); the pure pairs returned pass their own inequality.
C4_SigmaOneNoMixed ==
    (game.kind = "SymmetricTwoPlayerGame" /\ game.sigma = <<One, One>>
     /\ eqs_out.raised # "nocall") =>
        /\ eqs_out.raised = "none"
        /\ ~IsFinite(q0_value(game)[1])
        /\ \A k \in 1..Len(eqs_out.value) :
            \/ /\ eqs_out.value[k] = <<Zero, Zero>>
               /\ fgt(Payoff0(FALSE, FALSE), Payoff0(TRUE, FALSE))
            \/ /\ eqs_out.value[k] = <<One, One>>
               /\ fgt(Payoff0(TRUE, TRUE), Payoff0(FALSE, TRUE))

\* sigma = 1 and d = 0: q0 is a division by zero, and a pure pair is still returned.
C4_Witness ==
    /\ EqsReturned
    /\ game.sigma = <<One, One>>
    /\ game.d = <<Zero, Zero>>
    /\ ~IsFinite(q0_value(game)[1])
    /\ Len(eqs_out.value) > 0

NashReturned == game.kind = "SymmetricTwoPlayerGame" /\ nash_out.raised # "nocall"

\* Player 0's expected payoff under the independent mixtures (p0, p1).
ExpectedPayoff0(p) ==
    fadd(fmul(p[1], fadd(fmul(p[2], Payoff0(TRUE, TRUE)),
                         fmul(fsub(One, p[2]), Payoff0(TRUE, FALSE)))),
         fmul(fsub(One, p[1]), fadd(fmul(p[2], Payoff0(FALSE, TRUE)),
                                    fmul(fsub(One, p[2]), Payoff0(FALSE, FALSE)))))

\* One value per pair, in order, each the expected payoff of player 0; with no
\* argument the list is the one find_nash_eqs() returns.
NashPayoffsPositional ==
    /\ Len(nash_out.value) = Len(ps_in)
    /\ \A k \in 1..Len(ps_in) : nash_out.value[k] = ExpectedPayoff0(ps_in[k])
    /\ (nash_out.raised = "default" /\ eqs_out.raised = "none") => ps_in = eqs_out.value

MatrixFinite ==
    \A a \in BOOLEAN, b \in BOOLEAN : IsFinite(Payoff0(a, b))

PurePairsMapToEntries ==
    \A k \in 1..Len(ps_in) :
        /\ ps_in[k] = <<Zero, Zero>> => nash_out.value[k] = Payoff0(FALSE, FALSE)
        /\ ps_in[k] = <<One, One>> => nash_out.value[k] = Payoff0(TRUE, TRUE)

\* C5 as stated: nash_payoffs returns one value per pair in order, each the expected
\* payoff of player 0, and so (0,0) maps to payoff[safe][safe] and (1,1) to
\* payoff[risky][risky], for every SymmetricTwoPlayerGame.
C5_PureMapsAlways ==
    NashReturned => (NashPayoffsPositional /\ PurePairsMapToEntries)

\* C5 amended: the same, with the pure pairs mapping to payoff[safe][safe] and
\* payoff[risky][risky] when the four player-0 entries of the payoff matrix are finite;
\* when one of them is not (pi = 0 makes payoff[safe][safe] NaN) every value returned is NaN.
C5_PureMapsWhenFinite ==
    NashReturned =>
        /\ NashPayoffsPositional
        /\ MatrixFinite => PurePairsMapToEntries
        /\ ~MatrixFinite => \A k \in 1..Len(ps_in) : IsNaN(nash_out.value[k])

\* nash_payoffs() on its default list of three equilibria, after find_nash_eqs().
C5_Witness ==
    /\ NashReturned
    /\ nash_out.raised = "default"
    /\ eqs_out.raised = "none"
    /\ Len(ps_in) = 3
    /\ MatrixFinite
    /\ Payoff0(TRUE, FALSE) # Payoff0(FALSE, TRUE)

Constructed == spc \notin {"start", "ctor_failed"}

\* C6 as stated: a Scenario is constructed only if the primary varying parameter is
\* 1-d, the secondary varying parameter (if any) is 2-d with second dimension
\* n_players, and every other vector parameter is 1-d of length n_players.
C6_ShapesChecked ==
    Constructed =>
        /\ scen.varying_param \in VecNames => scen.params[scen.varying_param].ndim = 1
        /\ scen.secondary_varying_param \in VecNames =>
            /\ scen.params[scen.secondary_varying_param].ndim = 2
            /\ scen.params[scen.secondary_varying_param].shape[2] = scen.n_players
        /\ \A name \in VecNames \ {scen.varying_param, scen.secondary_varying_param} :
            /\ scen.params[name].ndim = 1
            /\ scen.params[name].shape[1] = scen.n_players

\* The statement that does hold of the constructor: as C6, with the check of the
\* secondary parameter made only when its name differs from the primary one.
ShapesCheckedUnlessSameName ==
    Constructed =>
        /\ scen.varying_param \in VecNames => scen.params[scen.varying_param].ndim = 1
        /\ (scen.secondary_varying_param \in VecNames
            /\ scen.secondary_varying_param # scen.varying_param) =>
            /\ scen.params[scen.secondary_varying_param].ndim = 2
            /\ scen.params[scen.secondary_varying_param].shape[2] = scen.n_players
        /\ \A name \in VecNames \ {scen.varying_param, scen.secondary_varying_param} :
            /\ scen.params[name].ndim = 1
            /\ scen.params[name].shape[1] = scen.n_players

\* The task of sweep step k of table m, built from the Scenario's own arrays: the
\* primary parameter holds its k-th value for every player, the secondary one its
\* m-th row, every other one its per-player vector.
ExpectedTask(m, k) ==
    [n_players |-> scen.n_players,
     row |-> [name \in VecNames |->
                IF name = scen.varying_param
                THEN [j \in 1..scen.n_players |-> scen.params[name].v[k]]
                ELSE IF scen.n_steps_secondary # 0 /\ name = scen.secondary_varying_param
                     THEN scen.params[name].rows[m]
                ELSE scen.params[name].v]]

\* C7: whatever order the tasks complete in, the solver's strategies have one entry per
\* grid point, entry k being the result of the task built from row k of the table, and
\* row k of the strategy, safety, performance and payoff arrays belongs to the k-th value
\* of the primary varying parameter.
C7_ResultsInSubmissionOrder ==
    \A m \in 1..Len(solved) :
        /\ Len(solved[m].strats) = scen.n_steps
        /\ Len(solved[m].s) = scen.n_steps
        /\ Len(solved[m].p) = scen.n_steps
        /\ Len(solved[m].payoffs) = scen.n_steps
        /\ \A k \in 1..scen.n_steps :
            /\ solved[m].strats[k] = StratOf(ExpectedTask(m, k))
            /\ solved[m].s[k].of = StratOf(ExpectedTask(m, k))
            /\ solved[m].p[k].of = StratOf(ExpectedTask(m, k))
            /\ solved[m].payoffs[k].of = StratOf(ExpectedTask(m, k))
            /\ solved[m].payoffs[k].row = ExpectedTask(m, k).row
            /\ \A name \in ProdNames :
                /\ solved[m].s[k].row[name] = ExpectedTask(m, k).row[name]
                /\ solved[m].p[k].row[name] = ExpectedTask(m, k).row[name]

\* A sweep that returned although its tasks completed out of submission order.
C7_Witness ==
    /\ spc = "done"
    /\ ret.kind = "tuple"
    /\ Len(solved) = 1
    /\ scen.n_steps >= 3
    /\ \E i \in 1..Len(pool.arrived), j \in 1..Len(pool.arrived) :
        i < j /\ pool.arrived[i] > pool.arrived[j]

SomeTaskFailed == \E k \in 1..Len(pool.tasks) : pool.tstate[k] = "failed"

\* C8: if the task of any grid point raises, solve() fails with a task's failure: no
\* task is run twice, no result is returned, not even for the rows that succeeded,
\* and no plot is written.
C8_FailFast ==
    /\ \A k \in 1..Len(pool.tasks) :
        Cardinality({i \in 1..Len(pool.arrived) : pool.arrived[i] = k}) <= 1
    /\ (spc \in {"done", "raised"} /\ SomeTaskFailed) =>
        /\ spc = "raised"
        /\ exc.type \in {"SolverError", "NameError"}
        /\ pool.tstate[exc.at] = "failed"
        /\ ret = NoRet
        /\ plots = <<>>
        /\ Len(solved) = cur - 1

\* solve(plot = True) ended by the failure of one task while another task succeeded.
C8_Witness ==
    /\ spc = "raised"
    /\ call.plot
    /\ call.method = "roots"
    /\ SomeTaskFailed
    /\ \E k \in 1..Len(pool.tasks) : pool.tstate[k] = "ok"

\* C9 as stated: with method 'cpp' and CPP_AVAILABLE False no task is submitted to the
\* pool and no worker runs.
C9_DetectedBeforeDispatch ==
    (call.method = "cpp" /\ ~cpp_available) =>
        /\ pool.tasks = <<>>
        /\ pool.arrived = <<>>

\* C10 as stated: with a secondary varying parameter solve() returns parallel sequences
\* with one entry per secondary value.
C10_SecondaryReturnsLists ==
    (spc = "done" /\ scen.n_steps_secondary # 0) =>
        /\ Len(solved) = scen.n_steps_secondary
        /\ ret.kind = "lists"
        /\ Len(ret.value) = scen.n_steps_secondary

\* The part of C10 the code does: the primary sweep is solved once per secondary value,
\* in the order of the secondary values.
SecondarySweepsInOrder ==
    (spc = "done" /\ scen.n_steps_secondary # 0) =>
        /\ Len(solved) = scen.n_steps_secondary
        /\ \A m \in 1..Len(solved) : \A k \in 1..scen.n_steps :
            solved[m].strats[k].task.row[scen.secondary_varying_param]
                = scen.params[scen.secondary_varying_param].rows[m]

PayoffsCalled == game.kind = "Game" /\ payoffs_out.raised # "nocall"

\* C11 as stated: get_payoffs(x) with len(x) different from n_players (a length-1 and
\* an empty vector included) fails with a shape-mismatch error and returns no payoff vector.
C11_WrongLengthFails ==
    (PayoffsCalled /\ Len(x_in) # game.n_players) =>
        /\ payoffs_out.raised = "ValueError"
        /\ payoffs_out.value = <<>>

\* What the code does with a vector of the wrong length: numpy broadcasts a length-1
\* x to every player and a one-player game to the length of x (an empty x gives an
\* empty payoff vector); every other wrong length raises ValueError.
WrongLengthFailsUnlessBroadcast ==
    (PayoffsCalled /\ Len(x_in) # game.n_players) =>
        /\ payoffs_out.raised = "ValueError" <=> (Len(x_in) # 1 /\ game.n_players # 1)
        /\ payoffs_out.raised = "ValueError" => payoffs_out.value = <<>>
        /\ (Len(x_in) = 1 /\ payoffs_out.raised = "none") =>
              payoffs_out.value
                  = payoffs_value(game, [j \in 1..game.n_players |-> x_in[1]])
        /\ (game.n_players = 1 /\ payoffs_out.raised = "none") =>
              Len(payoffs_out.value) = Len(x_in)

\* The total performance of the profile in which player 0 plays own and player 1 plays
\* other: the sum the CSF divides by.
TotalPerformance(own, other) ==
    vsum([i \in 1..2 |->
            IF <<own, other>>[i] THEN One ELSE game.pi[i]])

Degenerate(own, other) == TotalPerformance(own, other) = Zero

\* The probability with which the pair of mixtures (p0, p1) plays the profile (own, other).
ProfileProba(pair, own, other) ==
    fmul(IF own THEN pair[1] ELSE fsub(One, pair[1]),
         IF other THEN pair[2] ELSE fsub(One, pair[2]))

\* C12 as stated: when a profile has total performance zero its payoff-matrix entries
\* are not finite, find_nash_eqs() completes, and no returned equilibrium, pure or
\* mixed, plays that profile with positive probability.
C12_DegenerateNeverPlayed ==
    EqsReturned =>
        \A own \in BOOLEAN, other \in BOOLEAN :
            Degenerate(own, other) =>
                /\ ~IsFinite(Payoff0(own, other))
                /\ \A k \in 1..Len(eqs_out.value) :
                    ~flt(Zero, ProfileProba(eqs_out.value[k], own, other))

\* The part of C12 the code does: the pure pair of a degenerate profile fails its
\* inequality (a comparison with NaN is False) and is not returned.
DegeneratePureRejected ==
    EqsReturned =>
        \A own \in BOOLEAN :
            Degenerate(own, own) =>
                /\ IsNaN(Payoff0(own, own))
                /\ ~HasPair(<<IF own THEN One ELSE Zero, IF own THEN One ELSE Zero>>)

\* C13: every table solve() builds has, for each of the seven vector parameters, n_steps
\* rows of n_players entries; entry [k][j] of the primary varying parameter is the k-th
\* sweep value, entry [k][j] of a fixed parameter is that parameter's value for player j,
\* and in a secondary sweep (one table per secondary value) entry [k][j] of the secondary
\* parameter in table m is element [m][j] of that parameter.
C13_ParameterTable ==
    tables # <<>> =>
        /\ Len(tables) = IF scen.n_steps_secondary # 0 THEN scen.n_steps_secondary ELSE 1
        /\ \A m \in 1..Len(tables) : \A name \in VecNames :
            /\ Len(tables[m][name]) = scen.n_steps
            /\ \A k \in 1..scen.n_steps :
                /\ Len(tables[m][name][k]) = scen.n_players
                /\ \A j \in 1..scen.n_players :
                    tables[m][name][k][j] =
                        IF name = scen.varying_param
                        THEN scen.params[name].v[k]
                        ELSE IF scen.n_steps_secondary # 0
                                /\ name = scen.secondary_varying_param
                             THEN scen.params[name].rows[m][j]
                        ELSE scen.params[name].v[j]

\* The tables of a secondary sweep of several steps and several secondary values,
\* built and in use by a running pool.map.
C13_Witness ==
    /\ spc = "map"
    /\ scen.n_steps_secondary >= 2
    /\ Len(tables) = scen.n_steps_secondary
    /\ scen.n_steps >= 2
    /\ scen.n_steps # scen.n_players
    /\ tables[2][scen.secondary_varying_param] # tables[1][scen.secondary_varying_param]

HasMixed == \E k \in 1..Len(eqs_out.value) : IsMixed(eqs_out.value[k])

BaselineRegular ==
    /\ EqsReturned
    /\ game.csf = BaselineCSF
    /\ flt(Zero, game.pi[1])
    /\ ~flt(game.sigma[1], Zero) /\ flt(game.sigma[1], One)
    /\ ~flt(game.d[1], Zero)

====
